---- MODULE Spec2Model ----
(***************************************************************************)
(* Message Ding Relay (src/index.js): a WebSocket relay that keeps a Map   *)
(* clientId -> WebSocket and fans every accepted 'notify' submission out   *)
(* to the other registered sockets.                                        *)
(*                                                                         *)
(* Node runs every handler to completion on one thread, so each handler    *)
(* (connection, message, close, error, init, exit) is one atomic action.   *)
(* The sockets are objects of the ws library: a socket is numbered by the  *)
(* order in which the server accepted it, has a readyState, and may have a *)
(* transport that has already failed although readyState is still OPEN     *)
(* (the failure is reported later, by the socket's error/close event).     *)
(*                                                                         *)
(* Spec is the program under every kind of frame drawn; SpecOrder is the   *)
(* same program under accepted submissions only, with the notifications    *)
(* each socket receives kept in the order of the writes.                   *)
(***************************************************************************)
EXTENDS Integers, Sequences, FiniteSets, TLC

\* ---- bounds of the model ----
MaxConn == 3      \* connections accepted over the life of the process
MaxSubmit == 2    \* accepted submissions followed by SpecOrder

Conns == 1..MaxConn

\* ---- program constants ----
EVENT_TYPES == {"character_message", "user_message"}

\* ws.readyState of a socket; NONE: the socket does not exist yet.
ReadyStates == {"NONE", "OPEN", "CLOSING", "CLOSED"}

\* ---- inputs ----
\* The value of the `data` field of a submission: absent, a falsy JSON value
\* (0, "", false, null), or an object such as {text: "hi"}.
DataValues == {"absent", "falsy", "object"}

\* The value of the `event` field: absent, or a string.
EventValues == {"absent"} \cup EVENT_TYPES \cup {"unsupported_event"}

\* The raw frames a client can send, by what JSON.parse makes of them:
\*   json = "invalid"   JSON.parse throws
\*   json = "null"      parses to null (reading .type throws a TypeError)
\*   json = "object"    parses to an object with the given fields
\* Drawn are a frame that does not parse and the 'notify' frames: without an
\* event, with an event outside EVENT_TYPES, and with an allowed event and
\* each kind of data.
NoFields == [type |-> "absent", event |-> "absent", data |-> "absent"]
Frame(t, e, d) == [json |-> "object", type |-> t, event |-> e, data |-> d]
Frames ==
    { [json |-> "invalid"] @@ NoFields,
      Frame("notify", "absent", "absent"),
      Frame("notify", "unsupported_event", "absent"),
      Frame("notify", "character_message", "absent"),
      Frame("notify", "user_message", "object"),
      Frame("notify", "user_message", "falsy") }

\* The submission is one that handleMessage broadcasts: a 'notify' naming an
\* allowed event.
Accepted(frame) ==
    frame.json = "object" /\ frame.type = "notify" /\ frame.event \in EVENT_TYPES

VARIABLES
    wsServer,     \* TRUE iff the module variable wsServer is not null
    clients,      \* the Map clients, as the sequence of its entries in insertion order
    readyState,   \* readyState[c]: ws.readyState of socket c
    clientIdOf,   \* clientIdOf[c]: the clientId bound in handleConnection's closure (0: none)
    broken,       \* broken[c]: c is OPEN and its transport has failed, not yet reported
    receiving,    \* receiving[c]: socket c can still emit 'message' events
    welcomed,     \* welcomed[c]: the clientId of the welcome written to c (0: none)
    removed,      \* removed[c]: c's entry has been taken out of the Map (by its
                  \* close handler, its error handler, or exit's clear)
    submitted,    \* SpecOrder: the number of accepted submissions handled
    inbox,        \* SpecOrder: inbox[c]: the notifications written to socket c, in
                  \* the order of the writes, each as [from, seq]
    last          \* the handler that ran in the latest step (op "none": the step
                  \* was one of the environment): its socket, its input, and its
                  \* effects on the sockets (see NoIo)

vars == <<wsServer, clients, readyState, clientIdOf, broken, receiving,
          welcomed, removed, submitted, inbox, last>>
ordvars == <<submitted, inbox>>

\* ---- the Map clients ----
Keys(m) == { m[i].id : i \in DOMAIN m }
Values(m) == { m[i].ws : i \in DOMAIN m }
Entries(m) == { m[i] : i \in DOMAIN m }
MapSize(m) == Len(m)
MapHas(m, k) == k \in Keys(m)

\* Map.prototype.set: a present key keeps its position and takes the new value.
MapSet(m, k, v) ==
    IF MapHas(m, k)
    THEN [i \in DOMAIN m |-> IF m[i].id = k THEN [id |-> k, ws |-> v] ELSE m[i]]
    ELSE Append(m, [id |-> k, ws |-> v])

\* A delete that is given a key the Map does not hold (the socket, say,
\* instead of the clientId): nothing is removed.
MapDeleteWrongKey(m, k) == m

\* Map.prototype.delete: removing an absent key changes nothing.
MapDelete(m, k) == SelectSeq(m, LAMBDA e : e.id # k)

\* ---- socket writes ----
\* The effects of one handler on the sockets:
\*   out[c]   the messages it wrote to socket c, in order
\*   failed   the sockets on which a write of it failed
\*   closed   the sockets it called ws.close on
\*   threw    whether an exception is propagating out of it
NoIo == [out |-> [c \in Conns |-> << >>], failed |-> {}, closed |-> {},
         threw |-> FALSE]

\* ws.send that throws when the write fails.
WsSendThrows(io, c, msg) ==
    IF readyState[c] = "OPEN"
    THEN IF broken[c]
         THEN [io EXCEPT !.failed = @ \cup {c}, !.threw = TRUE]
         ELSE [io EXCEPT !.out[c] = Append(@, msg)]
    ELSE io

\* ws.send(msg) on socket c. On an OPEN socket the frame is written; when the
\* transport has failed the write is lost. On a socket that is not OPEN the
\* ws library discards the data (it throws only in state CONNECTING, which a
\* server-side socket never is).
WsSend(io, c, msg) ==
    IF readyState[c] = "OPEN"
    THEN IF broken[c]
         THEN [io EXCEPT !.failed = @ \cup {c}]
         ELSE [io EXCEPT !.out[c] = Append(@, msg)]
    ELSE io

\* ---- messages the server writes ----
Welcome(id) ==
    [type |-> "welcome", clientId |-> id, supportedEvents |-> EVENT_TYPES]
ErrorMsg(text) == [type |-> "error", message |-> text]
Pong == [type |-> "pong"]

\* message.data || {} : an absent or falsy value becomes the empty object.
DataOrEmpty(d) == IF d \in {"absent", "falsy"} THEN "empty_object" ELSE d

\* The notification built at lines 66-71; the value of Date.now() is not
\* represented.
Notification(frame) ==
    [type |-> "notification", event |-> frame.event,
     data |-> DataOrEmpty(frame.data)]

\* ---- broadcastToOthers ----
\* A forEach without the test clientId !== senderId.
RECURSIVE ForEachFromEcho(_, _, _, _)
ForEachFromEcho(i, senderId, message, io) ==
    IF i > Len(clients) \/ io.threw
    THEN io
    ELSE IF readyState[clients[i].ws] = "OPEN"
         THEN ForEachFromEcho(i + 1, senderId, message,
                              WsSend(io, clients[i].ws, message))
         ELSE ForEachFromEcho(i + 1, senderId, message, io)

\* clients.forEach from entry i on: an exception thrown by a callback ends
\* the iteration.
RECURSIVE ForEachFrom(_, _, _, _)
ForEachFrom(i, senderId, message, io) ==
    IF i > Len(clients) \/ io.threw
    THEN io
    ELSE LET clientId == clients[i].id
             ws == clients[i].ws
         IN  IF clientId # senderId /\ readyState[ws] = "OPEN"
             THEN ForEachFrom(i + 1, senderId, message, WsSend(io, ws, message))
             ELSE ForEachFrom(i + 1, senderId, message, io)

\* A broadcast that stops at the first write that fails.
RECURSIVE ForEachUntilFailure(_, _, _, _)
ForEachUntilFailure(i, senderId, message, io) ==
    IF i > Len(clients) \/ io.threw \/ io.failed # {}
    THEN io
    ELSE IF clients[i].id # senderId /\ readyState[clients[i].ws] = "OPEN"
         THEN ForEachUntilFailure(i + 1, senderId, message,
                                  WsSend(io, clients[i].ws, message))
         ELSE ForEachUntilFailure(i + 1, senderId, message, io)
broadcastStopsAtFailure(senderId, message, io) ==
    ForEachUntilFailure(1, senderId, message, io)

\* A broadcast that walks a list of every socket ever accepted instead of the
\* Map.
RECURSIVE ForEachAccepted(_, _, _, _)
ForEachAccepted(c, senderId, message, io) ==
    IF c > MaxConn
    THEN io
    ELSE IF readyState[c] = "OPEN" /\ clientIdOf[c] # senderId
         THEN ForEachAccepted(c + 1, senderId, message, WsSend(io, c, message))
         ELSE ForEachAccepted(c + 1, senderId, message, io)
broadcastToAccepted(senderId, message, io) == ForEachAccepted(1, senderId, message, io)

broadcastToOthers(senderId, message, io) == ForEachFrom(1, senderId, message, io)

\* ---- handleMessage ----
\* A try block that broadcasts whatever event the submission names.
TryHandleAnyEvent(ws, clientId, frame, io) ==
    IF frame.json = "invalid" \/ frame.json = "null"
    THEN [io EXCEPT !.threw = TRUE]
    ELSE IF frame.type = "absent"
    THEN WsSend(io, ws, ErrorMsg("Missing message type"))
    ELSE CASE frame.type = "notify" ->
                IF frame.event # "absent"
                THEN broadcastToOthers(clientId, Notification(frame), io)
                ELSE io
           [] frame.type = "ping" -> WsSend(io, ws, Pong)
           [] OTHER -> io

\* The body of the try block.
TryHandle(ws, clientId, frame, io) ==
    IF frame.json = "invalid" \/ frame.json = "null"
    THEN [io EXCEPT !.threw = TRUE]
    ELSE IF frame.type = "absent"
    THEN WsSend(io, ws, ErrorMsg("Missing message type"))
    ELSE CASE frame.type = "notify" ->
                IF frame.event # "absent" /\ frame.event \in EVENT_TYPES
                THEN broadcastToOthers(clientId, Notification(frame), io)
                ELSE io
           [] frame.type = "ping" -> WsSend(io, ws, Pong)
           [] OTHER -> io

\* A handleMessage without the catch block: the exception leaves the handler.
handleMessageNoCatch(ws, clientId, frame, io) == TryHandle(ws, clientId, frame, io)

\* try { ... } catch { ws.send(error 'Invalid JSON') }
handleMessage(ws, clientId, frame, io) ==
    LET r == TryHandle(ws, clientId, frame, io)
    IN  IF r.threw
        THEN WsSend([r EXCEPT !.threw = FALSE], ws, ErrorMsg("Invalid JSON"))
        ELSE r

\* ---- the state after construction ----
NoFrame == [json |-> "none"] @@ NoFields
\* The record of a handler: `before` is the set of entries of the Map when
\* the handler started; `lost` is set by the close and error handlers: the
\* handler that ran just before them was a broadcast in which the write to
\* their socket failed; `again` is set by them too: the entry of their socket
\* had been taken out of the Map before.
LostIn(l, c) == l.op = "message" /\ Accepted(l.frame) /\ c \in l.failed
Last(op, c, frame, io) ==
    [op |-> op, conn |-> c, frame |-> frame, lost |-> FALSE, again |-> FALSE,
     before |-> Entries(clients), out |-> io.out, failed |-> io.failed,
     closed |-> io.closed, threw |-> io.threw]

Init ==
    /\ wsServer = FALSE
    /\ clients = << >>
    /\ readyState = [c \in Conns |-> "NONE"]
    /\ clientIdOf = [c \in Conns |-> 0]
    /\ broken = [c \in Conns |-> FALSE]
    /\ receiving = [c \in Conns |-> FALSE]
    /\ welcomed = [c \in Conns |-> 0]
    /\ removed = [c \in Conns |-> FALSE]
    /\ submitted = 0
    /\ inbox = [c \in Conns |-> << >>]
    /\ last = Last("none", 0, NoFrame, NoIo)

\* ---- generateClientId ----
\* crypto.randomBytes(8) as hex: any of 2^64 values. A drawn value either
\* differs from every value drawn before (it is then named by the number of
\* the connection it is drawn for) or equals one of them.
Admitted == { c \in Conns : readyState[c] # "NONE" }
generateClientId(c) == {c} \cup { clientIdOf[d] : d \in Admitted }

\* ---- handlers ----
\* init -> initWebSocketServer: a server that exists is closed (it stops
\* accepting; its sockets stay as they are) and a new one is created.
init ==
    /\ wsServer' = TRUE
    /\ last' = Last("init", 0, NoFrame, NoIo)
    /\ UNCHANGED <<clients, readyState, clientIdOf, broken, receiving>>
    /\ UNCHANGED <<welcomed, removed, ordvars>>

\* A handleConnection that registers the socket and its listeners but writes
\* no welcome.
handleConnectionNoWelcome(c) ==
    /\ wsServer
    /\ readyState[c] = "NONE"
    /\ \A d \in Conns : d < c => readyState[d] # "NONE"
    /\ \E clientId \in generateClientId(c) :
         /\ clientIdOf' = [clientIdOf EXCEPT ![c] = clientId]
         /\ clients' = MapSet(clients, clientId, c)
         /\ last' = Last("connection", c, NoFrame, NoIo)
    /\ readyState' = [readyState EXCEPT ![c] = "OPEN"]
    /\ receiving' = [receiving EXCEPT ![c] = TRUE]
    /\ UNCHANGED <<wsServer, broken, welcomed, removed, ordvars>>

\* wsServer.on('connection', handleConnection), for the next socket accepted.
handleConnection(c) ==
    /\ wsServer
    /\ readyState[c] = "NONE"
    /\ \A d \in Conns : d < c => readyState[d] # "NONE"
    /\ \E clientId \in generateClientId(c) :
         /\ clientIdOf' = [clientIdOf EXCEPT ![c] = clientId]
         /\ clients' = MapSet(clients, clientId, c)
         /\ welcomed' = [welcomed EXCEPT ![c] = clientId]
         /\ last' = Last("connection", c, NoFrame,
                         [NoIo EXCEPT !.out[c] = <<Welcome(clientId)>>])
    /\ readyState' = [readyState EXCEPT ![c] = "OPEN"]
    /\ receiving' = [receiving EXCEPT ![c] = TRUE]
    /\ UNCHANGED <<wsServer, broken, removed, ordvars>>

\* A message handler whose broadcast deletes the entries it skips because
\* their socket is not OPEN.
OnMessagePrunes(c, frame) ==
    /\ receiving[c]
    /\ last' = Last("message", c, frame, handleMessage(c, clientIdOf[c], frame, NoIo))
    /\ clients' = IF Accepted(frame)
                  THEN SelectSeq(clients, LAMBDA e : readyState[e.ws] = "OPEN")
                  ELSE clients
    /\ UNCHANGED <<wsServer, readyState, clientIdOf, broken, receiving>>
    /\ UNCHANGED <<welcomed, removed, ordvars>>

\* ws.on('message', data => handleMessage(ws, clientId, data))
OnMessage(c, frame) ==
    /\ receiving[c]
    /\ last' = Last("message", c, frame, handleMessage(c, clientIdOf[c], frame, NoIo))
    /\ UNCHANGED <<wsServer, clients, readyState, clientIdOf, broken, receiving>>
    /\ UNCHANGED <<welcomed, removed, ordvars>>

\* A close handler that forgets clients.delete(clientId).
OnCloseKeepsEntry(c) ==
    /\ readyState[c] \in {"OPEN", "CLOSING"}
    /\ readyState' = [readyState EXCEPT ![c] = "CLOSED"]
    /\ receiving' = [receiving EXCEPT ![c] = FALSE]
    /\ broken' = [broken EXCEPT ![c] = FALSE]
    /\ last' = [Last("close", c, NoFrame, NoIo) EXCEPT !.lost = LostIn(last, c),
                                                       !.again = removed[c]]
    /\ removed' = [removed EXCEPT ![c] = TRUE]
    /\ UNCHANGED <<wsServer, clientIdOf, clients, welcomed, ordvars>>

\* ws.on('close', ...): the socket is CLOSED when the event is emitted.
OnClose(c) ==
    /\ readyState[c] \in {"OPEN", "CLOSING"}
    /\ readyState' = [readyState EXCEPT ![c] = "CLOSED"]
    /\ receiving' = [receiving EXCEPT ![c] = FALSE]
    /\ broken' = [broken EXCEPT ![c] = FALSE]
    /\ clients' = MapDelete(clients, clientIdOf[c])
    /\ last' = [Last("close", c, NoFrame, NoIo) EXCEPT !.lost = LostIn(last, c),
                                                       !.again = removed[c]]
    /\ removed' = [removed EXCEPT ![c] = TRUE]
    /\ UNCHANGED <<wsServer, clientIdOf, welcomed, ordvars>>

\* An error handler that forgets clients.delete(clientId).
OnErrorKeepsEntry(c) ==
    /\ readyState[c] \in {"OPEN", "CLOSING"}
    /\ readyState' = [readyState EXCEPT ![c] = "CLOSING"]
    /\ broken' = [broken EXCEPT ![c] = FALSE]
    /\ last' = [Last("error", c, NoFrame, NoIo) EXCEPT !.lost = LostIn(last, c),
                                                       !.again = removed[c]]
    /\ removed' = [removed EXCEPT ![c] = TRUE]
    /\ UNCHANGED <<wsServer, clientIdOf, receiving, clients, welcomed, ordvars>>

\* ws.on('error', ...): the ws library moves the socket to CLOSING before it
\* emits 'error'; the 'close' event follows later.
OnError(c) ==
    /\ readyState[c] \in {"OPEN", "CLOSING"}
    /\ readyState' = [readyState EXCEPT ![c] = "CLOSING"]
    /\ broken' = [broken EXCEPT ![c] = FALSE]
    /\ clients' = MapDelete(clients, clientIdOf[c])
    /\ last' = [Last("error", c, NoFrame, NoIo) EXCEPT !.lost = LostIn(last, c),
                                                       !.again = removed[c]]
    /\ removed' = [removed EXCEPT ![c] = TRUE]
    /\ UNCHANGED <<wsServer, clientIdOf, receiving, welcomed, ordvars>>

\* ws.close(code, reason) on socket c: an OPEN socket sends a close frame and
\* becomes CLOSING; a socket that is CLOSING or CLOSED stays as it is.
WsClose(st, c) ==
    [st EXCEPT !.closed = @ \cup {c},
               !.readyState[c] = IF @ = "OPEN" THEN "CLOSING" ELSE @,
               !.broken[c] = FALSE]

\* A loop that closes the first registered socket only.
CloseFirstOnly(i, st) ==
    IF i > Len(clients) THEN st ELSE WsClose(st, clients[i].ws)

\* clients.forEach(ws => ws.close(1000, 'Server shutting down')) from entry i on.
RECURSIVE CloseAllFrom(_, _)
CloseAllFrom(i, st) ==
    IF i > Len(clients) THEN st ELSE CloseAllFrom(i + 1, WsClose(st, clients[i].ws))

\* clients.clear(): every entry is taken out.
Cleared == [c \in Conns |-> removed[c] \/ c \in Values(clients)]

\* An exit without the test `if (wsServer)`: wsServer.close() on null throws
\* after the Map has been cleared.
exitUnguarded ==
    /\ LET st == CloseAllFrom(1, [readyState |-> readyState, broken |-> broken,
                                  closed |-> {}])
       IN  /\ readyState' = st.readyState
           /\ broken' = st.broken
           /\ last' = Last("exit", 0, NoFrame,
                           [NoIo EXCEPT !.closed = st.closed, !.threw = ~wsServer])
    /\ removed' = Cleared
    /\ clients' = << >>
    /\ wsServer' = FALSE
    /\ UNCHANGED <<clientIdOf, receiving, welcomed, ordvars>>

\* An exit that closes the sockets and the server but forgets clients.clear().
exitKeepsMap ==
    /\ IF wsServer
       THEN LET st == CloseAllFrom(1, [readyState |-> readyState, broken |-> broken,
                                       closed |-> {}])
            IN  /\ readyState' = st.readyState
                /\ broken' = st.broken
                /\ last' = Last("exit", 0, NoFrame, [NoIo EXCEPT !.closed = st.closed])
                /\ wsServer' = FALSE
       ELSE /\ last' = Last("exit", 0, NoFrame, NoIo)
            /\ UNCHANGED <<readyState, broken, wsServer>>
    /\ UNCHANGED <<clients, removed, clientIdOf, receiving, welcomed, ordvars>>

\* exit: with a server, close every registered socket, clear the Map, drop
\* the server; without one, nothing.
exit ==
    /\ IF wsServer
       THEN LET st == CloseAllFrom(1, [readyState |-> readyState, broken |-> broken,
                                       closed |-> {}])
            IN  /\ readyState' = st.readyState
                /\ broken' = st.broken
                /\ last' = Last("exit", 0, NoFrame, [NoIo EXCEPT !.closed = st.closed])
                /\ removed' = Cleared
                /\ clients' = << >>
                /\ wsServer' = FALSE
       ELSE /\ last' = Last("exit", 0, NoFrame, NoIo)
            /\ UNCHANGED <<readyState, broken, clients, wsServer, removed>>
    /\ UNCHANGED <<clientIdOf, receiving, welcomed, ordvars>>

\* ---- the environment of the sockets ----
\* The transport of an OPEN socket fails; the server has not been told yet.
TransportFails(c) ==
    /\ readyState[c] = "OPEN"
    /\ ~broken[c]
    /\ broken' = [broken EXCEPT ![c] = TRUE]
    /\ last' = Last("none", 0, NoFrame, NoIo)
    /\ UNCHANGED <<wsServer, clients, readyState, clientIdOf, receiving>>
    /\ UNCHANGED <<welcomed, removed, ordvars>>

\* The peer's close frame arrives: the ws library moves the socket to
\* CLOSING and emits no further 'message' event; 'close' is emitted later.
PeerCloses(c) ==
    /\ readyState[c] \in {"OPEN", "CLOSING"}
    /\ receiving[c]
    /\ readyState' = [readyState EXCEPT ![c] = "CLOSING"]
    /\ receiving' = [receiving EXCEPT ![c] = FALSE]
    /\ broken' = [broken EXCEPT ![c] = FALSE]
    /\ last' = Last("none", 0, NoFrame, NoIo)
    /\ UNCHANGED <<wsServer, clients, clientIdOf, welcomed, removed, ordvars>>

\* ---- the order of the writes on one socket ----
\* The submissions that handleMessage broadcasts.
Submissions == { frame \in Frames : Accepted(frame) }

\* A transport that hands over the latest write first.
TransmitLifo(box, msgs) == msgs \o box

\* What the peer of a socket receives: the frames written by ws.send arrive
\* in the order of the calls (TCP).
Transmit(box, msgs) == box \o msgs

\* OnMessage for an accepted submission, with the books of SpecOrder kept:
\* the submission gets the next number, and every socket the handler wrote
\* the notification to receives it after what it was written before.
OrdMessage(c, frame) ==
    /\ submitted < MaxSubmit
    /\ receiving[c]
    /\ last' = Last("message", c, frame, handleMessage(c, clientIdOf[c], frame, NoIo))
    /\ submitted' = submitted + 1
    /\ inbox' = [d \in Conns |->
                   Transmit(inbox[d],
                            [k \in DOMAIN last'.out[d] |->
                                [from |-> c, seq |-> submitted + 1]])]
    /\ UNCHANGED <<wsServer, clients, readyState, clientIdOf, broken, receiving>>
    /\ UNCHANGED <<welcomed, removed>>

Next ==
    \/ init
    \/ exit
    \/ \E c \in Conns : handleConnection(c)
    \/ \E c \in Conns, frame \in Frames : OnMessage(c, frame)
    \/ \E c \in Conns : OnClose(c)
    \/ \E c \in Conns : OnError(c)
    \/ \E c \in Conns : TransportFails(c)
    \/ \E c \in Conns : PeerCloses(c)

Spec == Init /\ [][Next]_vars

\* The same program, fed accepted submissions only, with the notifications
\* each socket receives kept in order.
NextOrder ==
    \/ init
    \/ exit
    \/ \E c \in Conns : handleConnection(c)
    \/ \E c \in Conns, frame \in Submissions : OrdMessage(c, frame)
    \/ \E c \in Conns : OnClose(c)
    \/ \E c \in Conns : OnError(c)
    \/ \E c \in Conns : TransportFails(c)
    \/ \E c \in Conns : PeerCloses(c)

SpecOrder == Init /\ [][NextOrder]_vars

\* GET /info: the diagnostics query.
connectedClients == MapSize(clients)

\* ---- properties ----
TypeOK ==
    /\ wsServer \in BOOLEAN
    /\ readyState \in [Conns -> ReadyStates]
    /\ clientIdOf \in [Conns -> 0..MaxConn]
    /\ broken \in [Conns -> BOOLEAN]
    /\ receiving \in [Conns -> BOOLEAN]
    /\ \A i \in DOMAIN clients : clients[i].ws \in Conns /\ clients[i].id \in Conns
    /\ last.frame \in Frames \cup {NoFrame}
    /\ welcomed \in [Conns -> 0..MaxConn]
    /\ removed \in [Conns -> BOOLEAN]
    /\ submitted \in 0..MaxSubmit
    /\ \A c \in Conns : Len(inbox[c]) <= MaxSubmit

Registered == Values(clients)
Silent(io) == (\A c \in Conns : io.out[c] = << >>) /\ io.failed = {}

\* The latest step handled an accepted submission of a registered sender.
BroadcastBy(c) ==
    last.op = "message" /\ last.conn = c /\ Accepted(last.frame) /\ c \in Registered

\* C1 as stated: after an accepted submission of a registered sender s, the
\* sockets written to (or on which the write was attempted) are exactly the
\* registered sockets other than s, each exactly once.
C1_AllOthersReceive ==
    \A s \in Conns : BroadcastBy(s) =>
        \A c \in Conns :
            IF c \in Registered \ {s}
            THEN \/ last.out[c] = <<Notification(last.frame)>> /\ c \notin last.failed
                 \/ last.out[c] = << >> /\ c \in last.failed
            ELSE last.out[c] = << >> /\ c \notin last.failed

\* C1 as amended: after an accepted submission of a registered sender s, the
\* notification is written exactly once to every registered socket other than
\* s whose readyState is OPEN (the write is lost when the transport of that
\* socket has failed), and nothing is written to any other socket, s included.
C1_OpenOthersReceive ==
    \A s \in Conns : BroadcastBy(s) =>
        \A c \in Conns :
            IF c \in Registered \ {s} /\ readyState[c] = "OPEN"
            THEN IF broken[c]
                 THEN last.out[c] = << >> /\ c \in last.failed
                 ELSE last.out[c] = <<Notification(last.frame)>> /\ c \notin last.failed
            ELSE last.out[c] = << >> /\ c \notin last.failed

\* Three registered sockets: the sender, one that received the notification,
\* and one that is closing and was skipped.
C1_Witness ==
    \E s, c, d \in Conns :
        /\ BroadcastBy(s) /\ readyState[s] = "OPEN"
        /\ c \in Registered \ {s} /\ last.out[c] = <<Notification(last.frame)>>
        /\ d \in Registered \ {s, c} /\ readyState[d] = "CLOSING"
        /\ last.out[d] = << >>

\* C2: handling a 'notify' whose event is not in EVENT_TYPES writes to no
\* socket (no notification, no error to the sender) and leaves the Map as it
\* was.
C2_UnknownEventDropped ==
    (last.op = "message" /\ last.frame.type = "notify"
       /\ last.frame.event = "unsupported_event")
    => (Silent(last) /\ ~last.threw /\ Entries(clients) = last.before)

\* An unknown event submitted by an OPEN registered socket while another
\* registered socket is OPEN and writable.
C2_Witness ==
    \E s, c \in Conns :
        /\ last.op = "message" /\ last.conn = s
        /\ last.frame.event = "unsupported_event"
        /\ {s, c} \subseteq Registered /\ s # c
        /\ readyState[s] = "OPEN" /\ readyState[c] = "OPEN"
        /\ ~broken[s] /\ ~broken[c]

\* C3: a 'notify' without an event field, sent by an OPEN socket whose
\* transport works, is answered with an error message, and nothing is written
\* to any other socket.
C3_MissingEventReported ==
    \A s \in Conns :
        (/\ last.op = "message" /\ last.conn = s
         /\ last.frame.type = "notify" /\ last.frame.event = "absent"
         /\ readyState[s] = "OPEN" /\ ~broken[s])
        => /\ Len(last.out[s]) = 1 /\ last.out[s][1].type = "error"
           /\ \A c \in Conns \ {s} : last.out[c] = << >> /\ c \notin last.failed

\* C4: when a write fails in a broadcast, every registered socket that is
\* OPEN, has a working transport and is not registered under the sender's
\* clientId is still written the notification.
C4_FailureDoesNotAbort ==
    (last.op = "message" /\ Accepted(last.frame) /\ last.failed # {}) =>
        \A i \in DOMAIN clients :
            (/\ clients[i].id # clientIdOf[last.conn]
             /\ readyState[clients[i].ws] = "OPEN"
             /\ ~broken[clients[i].ws])
            => last.out[clients[i].ws] = <<Notification(last.frame)>>

\* The write to the first entry visited failed and a later entry was written.
C4_Witness ==
    \E i, j \in DOMAIN clients :
        /\ last.op = "message" /\ Accepted(last.frame)
        /\ i < j
        /\ clients[i].ws \in last.failed
        /\ last.out[clients[j].ws] = <<Notification(last.frame)>>
        /\ \A k \in DOMAIN clients : k < i => clients[k].ws = last.conn

C6_FailureNotSurfaced ==
    /\ (last.op = "message" /\ Accepted(last.frame) /\ last.failed # {}) =>
           (last.out[last.conn] = << >> /\ last.conn \notin last.failed /\ ~last.threw)
    /\ last.op \in {"error", "close"} => Silent(last)

\* A write failed in the broadcast of a sender that is OPEN and writable.
C6_Witness ==
    /\ last.op = "message" /\ Accepted(last.frame) /\ last.failed # {}
    /\ last.conn \in Registered
    /\ readyState[last.conn] = "OPEN" /\ ~broken[last.conn]

\* C7: a close or error event that finds its clientId in the Map removes it
\* and lowers the size of the Map by one; a socket that is not in the Map
\* never enters it again, and no broadcast writes to it.
C7_RemovedIsNeverWritten ==
    /\ (last.op \in {"error", "close"}
          /\ \E e \in last.before : e.id = clientIdOf[last.conn]) =>
           /\ ~MapHas(clients, clientIdOf[last.conn])
           /\ last.conn \notin Registered
           /\ connectedClients = Cardinality(last.before) - 1
    /\ \A c \in Registered :
           \/ \E e \in last.before : e.ws = c
           \/ last.op = "connection" /\ last.conn = c
    /\ (last.op = "message" /\ Accepted(last.frame)) =>
           \A c \in Conns \ Registered :
               last.out[c] = << >> /\ c \notin last.failed

\* A broadcast reached a registered socket after the close event of another
\* socket had removed that one.
C7_Witness ==
    \E s, c, d \in Conns :
        /\ BroadcastBy(s)
        /\ c \in Registered /\ last.out[c] = <<Notification(last.frame)>>
        /\ readyState[d] = "CLOSED" /\ last.out[d] = << >>
        /\ clientIdOf[d] \notin {clientIdOf[s], clientIdOf[c]}

\* C8: no two connections are ever given the same clientId.
C8_IdsUnique ==
    \A c, d \in Admitted : c # d => clientIdOf[c] # clientIdOf[d]

\* C9: exit calls ws.close on exactly the sockets that were registered, none
\* of which stays OPEN, and leaves the Map empty.
C9_DrainClosesAll ==
    last.op = "exit" =>
        /\ last.closed = { e.ws : e \in last.before }
        /\ \A c \in last.closed : readyState[c] # "OPEN"
        /\ clients = << >>

\* exit has closed two registered sockets.
C9_Witness ==
    /\ last.op = "exit" /\ Cardinality(last.closed) >= 2
    /\ clients = << >>

\* C10: exit with an empty Map (a repeated exit included) calls ws.close on
\* no socket, writes nothing, leaves the Map empty and throws nothing.
C10_DrainRepeatable ==
    (last.op = "exit" /\ last.before = {}) =>
        /\ last.closed = {} /\ Silent(last) /\ ~last.threw
        /\ clients = << >>

\* exit ran without a server (wsServer null) after sockets had been accepted:
\* a repeated exit.
C10_Witness ==
    /\ last.op = "exit" /\ last.closed = {} /\ ~wsServer
    /\ \E c \in Conns : readyState[c] = "CLOSING" /\ c \notin Registered

\* C11: handleConnection gives the socket a clientId and writes it one
\* message, the welcome carrying that clientId and all of EVENT_TYPES; a
\* socket emits 'message' events, and a submission of it is handled, only
\* after that welcome has been written.
C11_WelcomeBeforeSubmission ==
    /\ last.op = "connection" =>
           /\ clientIdOf[last.conn] # 0
           /\ last.out[last.conn] = <<Welcome(clientIdOf[last.conn])>>
           /\ last.out[last.conn][1].supportedEvents = EVENT_TYPES
    /\ \A c \in Conns : receiving[c] => welcomed[c] # 0
    /\ last.op = "message" =>
           (welcomed[last.conn] # 0 /\ welcomed[last.conn] = clientIdOf[last.conn])

\* A submission of the socket admitted last is handled.
C11_Witness ==
    /\ last.op = "message" /\ Accepted(last.frame)
    /\ welcomed[last.conn] = clientIdOf[last.conn]
    /\ last.conn = MaxConn

\* C12: every entry of the Map is the entry that the handleConnection of its
\* socket made (the clientId is the socket's), its socket is not CLOSED, and
\* neither a close event nor an error event of that socket nor an exit has
\* been handled since; a socket for which one of them has been handled has
\* no entry, and right after a close or error handler its clientId is not a
\* key; after exit the Map is empty. No key and no socket occurs twice.
C12_NoDanglingEntry ==
    /\ \A i \in DOMAIN clients :
           LET c == clients[i].ws
           IN  /\ readyState[c] \in {"OPEN", "CLOSING"}
               /\ clientIdOf[c] = clients[i].id
               /\ ~removed[c]
    /\ \A i, j \in DOMAIN clients :
           i # j => (clients[i].id # clients[j].id /\ clients[i].ws # clients[j].ws)
    /\ \A c \in Conns : readyState[c] = "CLOSED" => removed[c]
    /\ \A c \in Conns : removed[c] => c \notin Registered
    /\ last.op \in {"error", "close"} => ~MapHas(clients, clientIdOf[last.conn])
    /\ last.op = "exit" => clients = << >>

\* One socket is registered, the error event of another has been handled
\* (its close event is still to come), and a third is CLOSED.
C12_Witness ==
    \E c, d, e \in Conns :
        /\ c \in Registered
        /\ readyState[d] = "CLOSING" /\ removed[d] /\ wsServer
        /\ readyState[e] = "CLOSED"
        /\ C8_IdsUnique

\* The frame is one that handleMessage's try block throws on: JSON.parse
\* rejects it, or it parses to null and reading its type throws.
Malformed(frame) == frame.json \in {"invalid", "null"}

\* C13: handling a frame that does not parse writes the error message
\* 'Invalid JSON' to the socket that sent it (the ws library discards the
\* write when that socket is no longer OPEN, and loses it when its transport
\* has failed), writes nothing to any other socket, leaves the Map as it was
\* and lets no exception out of the handler.
C13_MalformedReported ==
    \A s \in Conns :
        (last.op = "message" /\ last.conn = s /\ Malformed(last.frame)) =>
            /\ IF readyState[s] = "OPEN"
               THEN IF broken[s]
                    THEN last.out[s] = << >> /\ last.failed = {s}
                    ELSE last.out[s] = <<ErrorMsg("Invalid JSON")>> /\ last.failed = {}
               ELSE last.out[s] = << >> /\ last.failed = {}
            /\ \A c \in Conns \ {s} : last.out[c] = << >>
            /\ ~last.threw
            /\ Entries(clients) = last.before

\* An OPEN registered socket sent a frame that JSON.parse rejects while
\* another registered socket was OPEN, and was written the error message.
C13_Witness ==
    \E s, c \in Conns :
        /\ last.op = "message" /\ last.conn = s /\ last.frame.json = "invalid"
        /\ {s, c} \subseteq Registered /\ s # c /\ readyState[c] = "OPEN" /\ ~broken[c]
        /\ last.out[s] = <<ErrorMsg("Invalid JSON")>>

\* C14: every socket a broadcast writes to (or tries to) has, when the
\* handler runs, an entry in the Map under its own clientId; no handler
\* writes to a socket that is not OPEN, and none writes to or closes a socket
\* that is CLOSED.
C14_WritesOnlyToRegistered ==
    /\ (last.op = "message" /\ Accepted(last.frame)) =>
           \A c \in Conns :
               (last.out[c] # << >> \/ c \in last.failed) =>
                   /\ [id |-> clientIdOf[c], ws |-> c] \in last.before
                   /\ [id |-> clientIdOf[c], ws |-> c] \in Entries(clients)
    /\ \A c \in Conns :
           (last.out[c] # << >> \/ c \in last.failed) => readyState[c] = "OPEN"
    /\ \A c \in Conns :
           readyState[c] = "CLOSED" =>
               (last.out[c] = << >> /\ c \notin last.failed /\ c \notin last.closed)

\* A broadcast wrote to a registered socket while another socket, whose entry
\* had been removed, was still waiting for its close event.
C14_Witness ==
    \E s, c, d \in Conns :
        /\ BroadcastBy(s) /\ c # s
        /\ last.out[c] = <<Notification(last.frame)>>
        /\ readyState[d] = "CLOSING" /\ removed[d] /\ wsServer
        /\ C8_IdsUnique

C16_PayloadUnmodified ==
    (last.op = "message" /\ Accepted(last.frame)) =>
        \A c \in Conns : \A k \in DOMAIN last.out[c] :
            last.out[c][k].data =
                IF last.frame.data = "absent" THEN "empty_object" ELSE last.frame.data

\* C17: a close or error handler that runs for a socket whose entry has been
\* taken out before leaves the Map as it was.
C17_RemovalIdempotent ==
    (last.op \in {"error", "close"} /\ last.again) => Entries(clients) = last.before

\* C18: an accepted submission handled for a socket whose entry has been taken
\* out of the Map, and whose clientId is not a key of the Map, is written to
\* no socket.
C18_OnlyRegisteredBroadcast ==
    (/\ last.op = "message" /\ Accepted(last.frame)
     /\ removed[last.conn] /\ ~MapHas(clients, clientIdOf[last.conn]))
    => Silent(last)

\* C19: a broadcast writes to no registered socket whose readyState is not
\* OPEN and to no socket that is not registered; a message handler leaves
\* every entry in the Map, those of the sockets it skipped included, and a
\* registered socket that is not OPEN is a CLOSING socket whose close and
\* error events have not been handled.
C19_NonOpenSkippedAndKept ==
    /\ (last.op = "message" /\ Accepted(last.frame)) =>
           \A c \in Conns :
               (c \notin Registered \/ readyState[c] # "OPEN") =>
                   (last.out[c] = << >> /\ c \notin last.failed)
    /\ last.op = "message" => Entries(clients) = last.before
    /\ \A c \in Registered :
           readyState[c] # "OPEN" => (readyState[c] = "CLOSING" /\ ~removed[c])

\* A broadcast reached an OPEN socket and skipped a registered socket whose
\* peer had closed; the skipped socket is still registered.
C19_Witness ==
    \E s, c, d \in Conns :
        /\ BroadcastBy(s) /\ c # s /\ last.out[c] = <<Notification(last.frame)>>
        /\ d \in Registered /\ readyState[d] = "CLOSING" /\ ~receiving[d]
        /\ [id |-> clientIdOf[d], ws |-> d] \in last.before
        /\ last.out[d] = << >> /\ d \notin last.failed

\* C20: while there is no server (wsServer is null: after exit, until init
\* runs again) the Map is empty and no handler writes a notification to any
\* socket, whichever close, error or message events arrive.
C20_QuietAfterDrain ==
    ~wsServer =>
        /\ clients = << >>
        /\ \A c \in Conns : \A k \in DOMAIN last.out[c] :
               last.out[c][k].type # "notification"
        /\ last.op \in {"message", "error", "close"} => last.before = {}

\* After exit closed two registered sockets, one of them, still closing,
\* delivered an accepted submission; nothing was written.
C20_Witness ==
    \E s, d \in Conns :
        /\ ~wsServer /\ s # d
        /\ last.op = "message" /\ last.conn = s /\ Accepted(last.frame)
        /\ readyState[s] = "CLOSING" /\ removed[s]
        /\ readyState[d] = "CLOSING" /\ removed[d]
        /\ Silent(last)

====
